---------------------------- MODULE Spec2Model ----------------------------
(***************************************************************************)
(* A state-machine model of src/test-langfuse/main.py: a script that sets  *)
(* four environment variables at load time and whose main() constructs an  *)
(* OpenAI-compatible client, issues one chat-completion call and prints    *)
(* the content of the first choice.                                        *)
(*                                                                         *)
(* One process is modelled statement by statement (pc is the line about    *)
(* to execute).  The third-party libraries are the environment: the call   *)
(* to client.chat.completions.create either raises one of the library's    *)
(* errors or returns a response with 0..MaxChoices choices.  A "request"   *)
(* is one call of create made by the script.                               *)
(***************************************************************************)
EXTENDS Integers, Sequences, FiniteSets

VARIABLES
    entry,       \* __name__ == "__main__": run as a script (TRUE) or imported
    preEnv,      \* os.environ as it was before the process started
    env,         \* os.environ
    imported,    \* modules imported so far
    pc,          \* the line about to execute, or where the process rests
    client,      \* main's local `client`
    response,    \* main's local `response`: <<>> or <<the response>>
    exc,         \* the exception in flight ("none" when there is none)
    requests,    \* the calls of chat.completions.create made so far
    stdout,      \* the characters written to standard output
    events,      \* the observable steps of this process, in order: the
                 \* variable assigned, "called" (main invoked by an importer),
                 \* "client", "request", "response", "stdout"
    mainCalls,   \* how many times main() was invoked in this process
    exitStatus,  \* <<>> while the process runs, then <<status>>
    run,         \* the number of the current run of the script
    prev         \* what the previous run left behind for an observer

vars == <<entry, preEnv, env, imported, pc, client, response, exc, requests,
          stdout, events, mainCalls, exitStatus, run, prev>>

---------------------------------------------------------------------------
(* Bounds *)

MaxChoices == 2
MaxRuns == 2
MaxMainCalls == 1

---------------------------------------------------------------------------
(* Literals of the script *)

EnvNames ==
    {"LANGFUSE_PUBLIC_KEY", "LANGFUSE_SECRET_KEY", "LANGFUSE_BASE_URL",
     "ANTHROPIC_API_KEY"}

\* os.environ.get(k) is None when k is not set
Absent == "<unset>"

PreValues == {Absent, "preexisting"}

Model == "claude-opus-4-20250514"

\* the two messages in the wrong order
Messages_UserFirst ==
    << [role |-> "user", content |-> "Who are you?"],
       [role |-> "system", content |-> "You are a helpful assistant."] >>

Messages ==
    << [role |-> "system", content |-> "You are a helpful assistant."],
       [role |-> "user", content |-> "Who are you?"] >>

BaseUrl == "https://api.anthropic.com/v1/"

NoClient == [kind |-> "none"]

---------------------------------------------------------------------------
(* Texts, and what print does with them *)

NL == "\n"

\* message.content is Optional[str]: a text (a sequence of characters) or None
None == <<"<None>">>

Texts == { <<>>, <<"a">>, <<"a", NL, "b">>, <<"b", NL>> }

Contents == Texts \cup {None}

\* str(x), as print applies it to its argument
Str(content) == IF content = None THEN <<"N", "o", "n", "e">> ELSE content

SeqsUpTo(S, n) == UNION { [1..k -> S] : k \in 0..n }

\* a response object: its choices, each reduced to its message.content
Responses == { [choices |-> cs] : cs \in SeqsUpTo(Contents, MaxChoices) }

\* what chat.completions.create may raise
CallFailures ==
    {"AuthenticationError", "APIConnectionError", "APIStatusError",
     "APIResponseValidationError"}

RECURSIVE Count(_, _)
Count(s, x) ==
    IF s = <<>> THEN 0
    ELSE (IF Head(s) = x THEN 1 ELSE 0) + Count(Tail(s), x)

---------------------------------------------------------------------------
(* Process start *)

FreshPrev == [stdout |-> <<>>, nreq |-> 0, exit |-> <<>>]

Init ==
    /\ entry \in BOOLEAN
    /\ preEnv \in [EnvNames -> PreValues]
    /\ env = preEnv
    /\ imported = {}
    /\ pc = "l2"
    /\ client = NoClient
    /\ response = <<>>
    /\ exc = "none"
    /\ requests = <<>>
    /\ stdout = <<>>
    /\ events = <<>>
    /\ mainCalls = 0
    /\ exitStatus = <<>>
    /\ run = 1
    /\ prev = FreshPrev

---------------------------------------------------------------------------
(* Module level, lines 1-11 *)

Import(at, next, module) ==
    /\ pc = at
    /\ imported' = imported \cup {module}
    /\ pc' = next
    /\ UNCHANGED <<entry, preEnv, env, client, response, exc, requests,
                   stdout, events, mainCalls, exitStatus, run, prev>>

\* os.environ.setdefault(key, value): a value already set is kept
EnvAssign_SetDefault(at, next, key, value) ==
    /\ pc = at
    /\ env' = IF env[key] = Absent THEN [env EXCEPT ![key] = value] ELSE env
    /\ events' = Append(events, key)
    /\ pc' = next
    /\ UNCHANGED <<entry, preEnv, imported, client, response, exc, requests,
                   stdout, mainCalls, exitStatus, run, prev>>

\* os.environ[key] = value
EnvAssign(at, next, key, value) ==
    /\ pc = at
    /\ env' = [env EXCEPT ![key] = value]
    /\ events' = Append(events, key)
    /\ pc' = next
    /\ UNCHANGED <<entry, preEnv, imported, client, response, exc, requests,
                   stdout, mainCalls, exitStatus, run, prev>>

ImportLangfuse == Import("l2", "l3", "langfuse")

ImportLangfuseOpenAI == Import("l3", "l5", "langfuse.openai")

SetPublicKey == EnvAssign("l5", "l6", "LANGFUSE_PUBLIC_KEY", "pk-lf..")

SetSecretKey == EnvAssign("l6", "l7", "LANGFUSE_SECRET_KEY", "sk-lf-..")

SetBaseUrl ==
    EnvAssign("l7", "l10", "LANGFUSE_BASE_URL", "http://localhost:3000")

SetAnthropicKey == EnvAssign("l10", "l11", "ANTHROPIC_API_KEY", "sk-..")

ImportAnthropic == Import("l11", "l32", "anthropic")

---------------------------------------------------------------------------
(* Lines 32-33, and main() as an importer may call it *)

\* main() called at module level without the __name__ guard
EntryGuard_Unconditional ==
    /\ pc = "l32"
    /\ pc' = "l16"
    /\ mainCalls' = mainCalls + 1
    /\ UNCHANGED <<entry, preEnv, env, imported, client, response, exc,
                   requests, stdout, events, exitStatus, run, prev>>

\* if __name__ == "__main__": main()
EntryGuard ==
    /\ pc = "l32"
    /\ IF entry
       THEN pc' = "l16" /\ mainCalls' = mainCalls + 1
       ELSE pc' = "loaded" /\ mainCalls' = mainCalls
    /\ UNCHANGED <<entry, preEnv, env, imported, client, response, exc,
                   requests, stdout, events, exitStatus, run, prev>>

\* the module was imported: main is a public name the importer may call;
\* each call starts with fresh locals
ImporterCallsMain ==
    /\ ~entry
    /\ pc = "loaded"
    /\ mainCalls < MaxMainCalls
    /\ pc' = "l16"
    /\ mainCalls' = mainCalls + 1
    /\ client' = NoClient
    /\ response' = <<>>
    /\ events' = Append(events, "called")
    /\ UNCHANGED <<entry, preEnv, env, imported, exc, requests, stdout,
                   exitStatus, run, prev>>

---------------------------------------------------------------------------
(* main(), lines 14-29 *)

\* the key is assigned to the environment inside main, after the client
ConstructClient_SetsKeyLate ==
    /\ pc = "l16"
    /\ client' = [kind |-> "OpenAI", api_key |-> env["ANTHROPIC_API_KEY"],
                  base_url |-> BaseUrl]
    /\ env' = [env EXCEPT !["ANTHROPIC_API_KEY"] = "sk-.."]
    /\ events' = events \o <<"client", "ANTHROPIC_API_KEY">>
    /\ pc' = "l21"
    /\ UNCHANGED <<entry, preEnv, imported, response, exc, requests, stdout,
                   mainCalls, exitStatus, run, prev>>

\* client = OpenAI(api_key=os.environ.get("ANTHROPIC_API_KEY"), base_url=...)
\* The constructor raises when it is given no key.
ConstructClient ==
    /\ pc = "l16"
    /\ LET key == env["ANTHROPIC_API_KEY"] IN
       IF key = Absent
       THEN /\ exc' = "OpenAIError"
            /\ pc' = "raised"
            /\ UNCHANGED <<client, events>>
       ELSE /\ client' = [kind |-> "OpenAI", api_key |-> key,
                          base_url |-> BaseUrl]
            /\ events' = Append(events, "client")
            /\ pc' = "l21"
            /\ exc' = exc
    /\ UNCHANGED <<entry, preEnv, env, imported, response, requests, stdout,
                   mainCalls, exitStatus, run, prev>>

\* a failed call is tried once more
CreateCompletion_Retry ==
    /\ pc = "l21"
    /\ requests' = Append(requests, [api_key |-> client.api_key,
                                     base_url |-> client.base_url,
                                     model |-> Model,
                                     messages |-> Messages])
    /\ \/ \E f \in CallFailures :
             /\ events' = Append(events, "request")
             /\ response' = response
             /\ IF Len(requests) < mainCalls
                THEN pc' = "l21" /\ exc' = exc
                ELSE pc' = "raised" /\ exc' = f
       \/ \E r \in Responses :
             /\ response' = <<r>>
             /\ pc' = "l29"
             /\ events' = events \o <<"request", "response">>
             /\ exc' = exc
    /\ UNCHANGED <<entry, preEnv, env, imported, client, stdout, mainCalls,
                   exitStatus, run, prev>>

\* the reply of the last successful run is reused instead of asking again
CreateCompletion_Memo ==
    /\ pc = "l21"
    /\ IF prev.exit = <<0>>
       THEN /\ \E r \in Responses :
                  /\ Len(r.choices) = 1
                  /\ Str(r.choices[1]) \o <<NL>> = prev.stdout
                  /\ response' = <<r>>
            /\ pc' = "l29"
            /\ UNCHANGED <<requests, events, exc>>
       ELSE /\ requests' = Append(requests, [api_key |-> client.api_key,
                                             base_url |-> client.base_url,
                                             model |-> Model,
                                             messages |-> Messages])
            /\ \/ \E f \in CallFailures :
                     /\ exc' = f
                     /\ pc' = "raised"
                     /\ events' = Append(events, "request")
                     /\ response' = response
               \/ \E r \in Responses :
                     /\ response' = <<r>>
                     /\ pc' = "l29"
                     /\ events' = events \o <<"request", "response">>
                     /\ exc' = exc
    /\ UNCHANGED <<entry, preEnv, env, imported, client, stdout, mainCalls,
                   exitStatus, run, prev>>

\* response = client.chat.completions.create(model=..., messages=[...])
\* One blocking call: it raises, or it returns a response.
CreateCompletion ==
    /\ pc = "l21"
    /\ requests' = Append(requests, [api_key |-> client.api_key,
                                     base_url |-> client.base_url,
                                     model |-> Model,
                                     messages |-> Messages])
    /\ \/ \E f \in CallFailures :
             /\ exc' = f
             /\ pc' = "raised"
             /\ events' = Append(events, "request")
             /\ response' = response
       \/ \E r \in Responses :
             /\ response' = <<r>>
             /\ pc' = "l29"
             /\ events' = events \o <<"request", "response">>
             /\ exc' = exc
    /\ UNCHANGED <<entry, preEnv, env, imported, client, stdout, mainCalls,
                   exitStatus, run, prev>>

\* print(response.choices[-1].message.content)
PrintContent_LastChoice ==
    /\ pc = "l29"
    /\ LET choices == response[1].choices IN
       IF Len(choices) = 0
       THEN /\ exc' = "IndexError"
            /\ pc' = "raised"
            /\ UNCHANGED <<stdout, events>>
       ELSE /\ stdout' = stdout \o Str(choices[Len(choices)]) \o <<NL>>
            /\ events' = Append(events, "stdout")
            /\ pc' = "ret"
            /\ exc' = exc
    /\ UNCHANGED <<entry, preEnv, env, imported, client, response, requests,
                   mainCalls, exitStatus, run, prev>>

\* if response.choices: print(...) -- an empty list is skipped silently
PrintContent_GuardEmpty ==
    /\ pc = "l29"
    /\ LET choices == response[1].choices IN
       IF Len(choices) = 0
       THEN /\ pc' = "ret"
            /\ UNCHANGED <<stdout, events>>
       ELSE /\ stdout' = stdout \o Str(choices[1]) \o <<NL>>
            /\ events' = Append(events, "stdout")
            /\ pc' = "ret"
    /\ UNCHANGED <<entry, preEnv, env, imported, client, response, requests,
                   exc, mainCalls, exitStatus, run, prev>>

\* print(..., end="")
PrintContent_NoNewline ==
    /\ pc = "l29"
    /\ LET choices == response[1].choices IN
       IF Len(choices) = 0
       THEN /\ exc' = "IndexError"
            /\ pc' = "raised"
            /\ UNCHANGED <<stdout, events>>
       ELSE /\ stdout' = stdout \o Str(choices[1])
            /\ events' = Append(events, "stdout")
            /\ pc' = "ret"
            /\ exc' = exc
    /\ UNCHANGED <<entry, preEnv, env, imported, client, response, requests,
                   mainCalls, exitStatus, run, prev>>

\* print(response.choices[0].message.content)
\* choices[0] raises IndexError on an empty list, before print is called;
\* print writes str(content) and then a newline.
PrintContent ==
    /\ pc = "l29"
    /\ LET choices == response[1].choices IN
       IF Len(choices) = 0
       THEN /\ exc' = "IndexError"
            /\ pc' = "raised"
            /\ UNCHANGED <<stdout, events>>
       ELSE /\ stdout' = stdout \o Str(choices[1]) \o <<NL>>
            /\ events' = Append(events, "stdout")
            /\ pc' = "ret"
            /\ exc' = exc
    /\ UNCHANGED <<entry, preEnv, env, imported, client, response, requests,
                   mainCalls, exitStatus, run, prev>>

\* main falls off its end and returns None: to line 33's caller when the
\* module is the script, to the importer otherwise
MainReturn ==
    /\ pc = "ret"
    /\ pc' = IF entry THEN "end" ELSE "loaded"
    /\ UNCHANGED <<entry, preEnv, env, imported, client, response, exc,
                   requests, stdout, events, mainCalls, exitStatus, run, prev>>

---------------------------------------------------------------------------
(* Process end *)

\* the script ran to its last line: the interpreter exits with status 0
ExitNormally ==
    /\ entry
    /\ pc = "end"
    /\ exitStatus' = <<0>>
    /\ pc' = "exited"
    /\ UNCHANGED <<entry, preEnv, env, imported, client, response, exc,
                   requests, stdout, events, mainCalls, run, prev>>

\* the exception is caught and dropped at top level: the process exits 0
UnhandledExit_Swallowed ==
    /\ entry
    /\ pc = "raised"
    /\ exitStatus' = <<0>>
    /\ pc' = "exited"
    /\ UNCHANGED <<entry, preEnv, env, imported, client, response, exc,
                   requests, stdout, events, mainCalls, run, prev>>

\* nothing in the script catches: the exception leaves main and the module,
\* the interpreter prints the traceback on stderr and exits with status 1
UnhandledExit ==
    /\ entry
    /\ pc = "raised"
    /\ exitStatus' = <<1>>
    /\ pc' = "exited"
    /\ UNCHANGED <<entry, preEnv, env, imported, client, response, exc,
                   requests, stdout, events, mainCalls, run, prev>>

\* the script is run again with the same inputs: a new process, whose state
\* is that of a first start; prev keeps what an observer saw of the last run
Restart ==
    /\ entry
    /\ pc = "exited"
    /\ run < MaxRuns
    /\ run' = run + 1
    /\ prev' = [stdout |-> stdout, nreq |-> Len(requests),
                exit |-> exitStatus]
    /\ env' = preEnv
    /\ imported' = {}
    /\ pc' = "l2"
    /\ client' = NoClient
    /\ response' = <<>>
    /\ exc' = "none"
    /\ requests' = <<>>
    /\ stdout' = <<>>
    /\ events' = <<>>
    /\ mainCalls' = 0
    /\ exitStatus' = <<>>
    /\ UNCHANGED <<entry, preEnv>>

---------------------------------------------------------------------------
Next ==
    \/ ImportLangfuse
    \/ ImportLangfuseOpenAI
    \/ SetPublicKey
    \/ SetSecretKey
    \/ SetBaseUrl
    \/ SetAnthropicKey
    \/ ImportAnthropic
    \/ EntryGuard
    \/ ImporterCallsMain
    \/ ConstructClient
    \/ CreateCompletion
    \/ PrintContent
    \/ MainReturn
    \/ ExitNormally
    \/ UnhandledExit
    \/ Restart

Spec == Init /\ [][Next]_vars

---------------------------------------------------------------------------
(* Vocabulary of the properties *)

\* main's current call received a response and returned without raising
Returned ==
    /\ exc = "none"
    /\ response # <<>>
    /\ pc \in {"ret", "end", "exited", "loaded"}

Choices == response[1].choices

FirstChoice == response[1].choices[1]

\* the last n characters of s
Suffix(s, n) == SubSeq(s, Len(s) - n + 1, Len(s))

Bootstrapping == pc \in {"l2", "l3", "l5", "l6", "l7", "l10"}

MainSteps == {"client", "request", "response", "stdout"}

---------------------------------------------------------------------------
\* C1: whenever the call returned a response with at least one choice and
\* main returned, what this call of main wrote to stdout is the content of
\* choices[0] as print renders it, character for character, followed by the
\* line end and nothing else; a textual content appears verbatim; no other
\* choice has any part in the output.
C1_PrintsFirstChoiceVerbatim ==
    Returned =>
        LET written == IF FirstChoice = None
                       THEN <<"N", "o", "n", "e", NL>>
                       ELSE FirstChoice \o <<NL>>
        IN /\ Len(stdout) >= Len(written)
           /\ Suffix(stdout, Len(written)) = written
           /\ mainCalls = 1 => stdout = written

C1_Witness ==
    /\ Returned
    /\ Len(Choices) = 2
    /\ FirstChoice = <<"a", NL, "b">>
    /\ Choices[2] = <<"a">>
    /\ stdout = <<"a", NL, "b", NL>>

\* C2: a run of the script as entry point issues exactly one request; it
\* names model claude-opus-4-20250514 and carries the system message and
\* then the user message, whatever the environment and the earlier runs.
C2_OneFixedRequest ==
    /\ \A i \in 1..Len(requests) :
          /\ requests[i].model = "claude-opus-4-20250514"
          /\ requests[i].messages =
                << [role |-> "system",
                    content |-> "You are a helpful assistant."],
                   [role |-> "user", content |-> "Who are you?"] >>
    /\ entry => Len(requests) <= 1
    /\ entry /\ pc = "exited" => Len(requests) = 1

C2_Witness ==
    /\ entry
    /\ pc = "exited"
    /\ run = 2
    /\ Len(requests) = 1
    /\ preEnv["ANTHROPIC_API_KEY"] = "preexisting"

\* C3: when the call fails, no further request is issued by that call of
\* main, that call writes nothing to stdout, and the exception is handled
\* nowhere: in a script run the only step left is the exit with status 1.
C3_CallFailurePropagates ==
    exc \in CallFailures =>
        /\ Len(requests) = mainCalls
        /\ Count(events, "stdout") = mainCalls - 1
        /\ response = <<>>
        /\ entry =>
              /\ Len(requests) = 1
              /\ stdout = <<>>
              /\ \/ pc = "raised" /\ ENABLED UnhandledExit
                 \/ pc = "exited" /\ exitStatus = <<1>>

C3_Witness ==
    /\ entry
    /\ exc = "AuthenticationError"
    /\ pc = "exited"
    /\ exitStatus = <<1>>
    /\ Len(requests) = 1

\* C4: when the response has no choices, reading choices[0] raises, the
\* call of main writes nothing, and a script run ends abnormally with an
\* empty stdout.
C4_EmptyChoicesFails ==
    (response # <<>> /\ Len(Choices) = 0 /\ pc # "l29") =>
        /\ exc = "IndexError"
        /\ Count(events, "stdout") = mainCalls - 1
        /\ entry =>
              /\ stdout = <<>>
              /\ \/ pc = "raised" /\ ENABLED UnhandledExit
                 \/ pc = "exited" /\ exitStatus = <<1>>

C4_Witness ==
    /\ entry
    /\ response = << [choices |-> <<>>] >>
    /\ exc = "IndexError"
    /\ pc = "exited"
    /\ stdout = <<>>

\* C5: the key the client is constructed with is the one the script
\* assigned, and all four variables hold the script's values from the end
\* of the bootstrap on, whatever the environment held before the start.
C5_ScriptValuesOverwrite ==
    /\ client # NoClient => client.api_key = "sk-.."
    /\ \A i \in 1..Len(requests) : requests[i].api_key = "sk-.."
    /\ ~Bootstrapping =>
          /\ env["ANTHROPIC_API_KEY"] = "sk-.."
          /\ env["LANGFUSE_PUBLIC_KEY"] = "pk-lf.."
          /\ env["LANGFUSE_SECRET_KEY"] = "sk-lf-.."
          /\ env["LANGFUSE_BASE_URL"] = "http://localhost:3000"

C5_Witness ==
    /\ client # NoClient
    /\ requests # <<>>
    /\ preEnv["ANTHROPIC_API_KEY"] = "preexisting"
    /\ preEnv["LANGFUSE_PUBLIC_KEY"] = "preexisting"
    /\ preEnv["LANGFUSE_SECRET_KEY"] = Absent
    /\ preEnv["LANGFUSE_BASE_URL"] = "preexisting"

\* C6: a script run that has exited has status 0 exactly when a response
\* was received, its first choice read and the output written; a run in
\* which anything raised has status 1.
C6_ExitStatus ==
    (entry /\ pc = "exited") =>
        /\ exitStatus \in {<<0>>, <<1>>}
        /\ exitStatus = <<0>> <=>
              /\ response # <<>>
              /\ Len(Choices) >= 1
              /\ Count(events, "stdout") = 1
              /\ exc = "none"
        /\ exc # "none" => exitStatus = <<1>>

C6_Witness ==
    /\ entry
    /\ pc = "exited"
    /\ run = 2
    /\ prev.exit = <<0>>
    /\ exitStatus = <<1>>
    /\ exc = "IndexError"

\* C7 as stated: a successful run leaves exactly one line on stdout, by
\* exactly one write.
C7_ExactlyOneLine ==
    (entry /\ Returned) =>
        /\ Count(events, "stdout") = 1
        /\ Count(stdout, NL) = 1

\* C7 as amended: a successful run calls print exactly once and no other
\* step writes to stdout; the output is the reply followed by one line end,
\* so it has one line more than the reply has line ends: one line exactly
\* when the reply text contains no line end.
C7_OnePrintOfReply ==
    /\ Count(events, "stdout") <= mainCalls
    /\ stdout = <<>> <=> Count(events, "stdout") = 0
    /\ (entry /\ Returned) =>
          /\ Count(events, "stdout") = 1
          /\ stdout[Len(stdout)] = NL
          /\ Count(stdout, NL) = 1 + Count(Str(FirstChoice), NL)
          /\ Count(stdout, NL) = 1 <=> Count(Str(FirstChoice), NL) = 0

C7_Witness ==
    /\ entry
    /\ Returned
    /\ pc = "exited"
    /\ FirstChoice = <<"a", NL, "b">>
    /\ Count(stdout, NL) = 2

\* C8: a second run of the script starts from the state of a first start,
\* issues its own request, and its output is that of its own response,
\* whatever the first run did or printed.
C8_RunsAreIndependent ==
    run >= 2 =>
        /\ pc = "l2" =>
              /\ env = preEnv
              /\ client = NoClient
              /\ response = <<>>
              /\ requests = <<>>
              /\ stdout = <<>>
        /\ pc \in {"l29", "ret", "end", "raised", "exited"} =>
              Len(requests) = 1
        /\ Returned => stdout = Str(FirstChoice) \o <<NL>>

C8_Witness ==
    /\ run = 2
    /\ pc = "exited"
    /\ prev.exit = <<0>>
    /\ prev.nreq = 1
    /\ exitStatus = <<0>>
    /\ Len(requests) = 1
    /\ stdout # prev.stdout

\* C9: the four assignments come first and once each, in the order of the
\* script; a client is constructed only after all four; a request follows
\* the construction of its client; stdout is written only right after a
\* response; nothing assigns a variable once the bootstrap is over.
C9_StepOrder ==
    /\ \A k \in EnvNames : Count(events, k) <= 1
    /\ ~Bootstrapping =>
          /\ Len(events) >= 4
          /\ SubSeq(events, 1, 4) =
                <<"LANGFUSE_PUBLIC_KEY", "LANGFUSE_SECRET_KEY",
                  "LANGFUSE_BASE_URL", "ANTHROPIC_API_KEY">>
    /\ \A j \in 1..Len(events) :
          /\ events[j] \in EnvNames =>
                \A i \in 1..(j - 1) : events[i] \notin MainSteps
          /\ events[j] = "client" =>
                \A k \in EnvNames : \E i \in 1..(j - 1) : events[i] = k
          /\ events[j] = "request" => j > 1 /\ events[j - 1] = "client"
          /\ events[j] = "stdout" => j > 1 /\ events[j - 1] = "response"
    /\ client # NoClient => Count(events, "client") >= 1
    /\ requests # <<>> => Count(events, "request") = Len(requests)
    /\ stdout # <<>> => Count(events, "stdout") >= 1

C9_Witness ==
    /\ entry
    /\ pc = "exited"
    /\ events = <<"LANGFUSE_PUBLIC_KEY", "LANGFUSE_SECRET_KEY",
                  "LANGFUSE_BASE_URL", "ANTHROPIC_API_KEY",
                  "client", "request", "response", "stdout">>

\* C10: loading the module as an import assigns the four variables and
\* nothing more: the load itself does not invoke main, and until the
\* importer invokes main there is no client, no request and no output.
C10_ImportOnlyBootstraps ==
    /\ (~entry /\ pc = "loaded") =>
          /\ env["ANTHROPIC_API_KEY"] = "sk-.."
          /\ env["LANGFUSE_PUBLIC_KEY"] = "pk-lf.."
          /\ env["LANGFUSE_SECRET_KEY"] = "sk-lf-.."
          /\ env["LANGFUSE_BASE_URL"] = "http://localhost:3000"
    /\ ~entry =>
          \A j \in 1..Len(events) :
             events[j] \in MainSteps =>
                \E i \in 1..(j - 1) : events[i] = "called"
    /\ (~entry /\ mainCalls = 0) => pc \notin {"l16", "l21", "l29", "ret"}
    /\ mainCalls = 0 =>
          /\ client = NoClient
          /\ requests = <<>>
          /\ stdout = <<>>
          /\ \A j \in 1..Len(events) : events[j] \notin MainSteps

C10_Witness ==
    /\ ~entry
    /\ pc = "loaded"
    /\ mainCalls = 0
    /\ imported = {"langfuse", "langfuse.openai", "anthropic"}
    /\ preEnv["ANTHROPIC_API_KEY"] = Absent
    /\ env["ANTHROPIC_API_KEY"] = "sk-.."

===========================================================================
